---- MODULE Spec2Model ----
(***************************************************************************)
(* Model of the HTML renderer of src/src/html.rs (Ctx::run, Ctx::start_tag, *)
(* Ctx::end_tag, Ctx::fresh_line, push_html).                              *)
(*                                                                         *)
(* Strings are sequences of one-character strings, so that byte offsets,   *)
(* insertions and escaping are computed as the code computes them.  Every  *)
(* character of the model's alphabet is ASCII, so a byte offset is a       *)
(* character offset.                                                       *)
(***************************************************************************)
EXTENDS Naturals, Sequences, FiniteSets, TLC

VARIABLES
    iter,      \* Ctx.iter: the events the iterator has not yielded yet
    buf,       \* Ctx.buf: the caller's output buffer
    numbers,   \* the footnote number table of Ctx::run (name -> number)
    pc,        \* "call": push_html entered; "run": in the loop of Ctx::run;
               \* "raw": in raw-text skip mode; "done": the loop has ended
    nest,      \* the nesting counter of raw-text skip mode
    input,     \* history: the event sequence the iterator was created with
    buf0,      \* history: the buffer contents when push_html was called
    handled,   \* history: the events handled so far, in handling order
    prev       \* history: buf and numbers as they were before the last step

vars == <<iter, buf, numbers, pc, nest, input, buf0, handled, prev>>

(***************************************************************************)
(* Bounds of the model.                                                    *)
(***************************************************************************)
MaxEvents == 2        \* length of an input over every event kind
MaxFootEvents == 4    \* length of an input of the footnote family
MaxLinkEvents == 3    \* length of an input of the link family
MaxPieces == 3        \* number of pieces a Text payload is built from
MaxRawEvents == 5     \* length of an input of the nesting family (skip mode)
MaxRawAll == 2        \* length of an input over every event kind (skip mode)

SeqsUpTo(S, n) == UNION {[1..k -> S] : k \in 0..n}

RECURSIVE Flatten(_)
Flatten(ss) == IF ss = <<>> THEN <<>> ELSE Head(ss) \o Flatten(Tail(ss))

RECURSIVE Str(_)
\* a sequence of characters as a TLA+ string, to compare with literals
Str(s) ==
    IF s = <<>> THEN ""
    ELSE IF Len(s) = 1 THEN s[1]
    ELSE Str(SubSeq(s, 1, Len(s) \div 2)) \o Str(SubSeq(s, Len(s) \div 2 + 1, Len(s)))

IsPrefix(s, t) == Len(s) <= Len(t) /\ SubSeq(t, 1, Len(s)) = s

NL == "\n"
QUOTE == "\""

(***************************************************************************)
(* escape::escape_html and escape::escape_href.  The module `escape` is    *)
(* imported by html.rs (line 28); both functions are modelled from their   *)
(* contracts.                                                              *)
(***************************************************************************)
EscapeHtmlChar(c, escape_quotes) ==
    CASE c = "&" -> <<"&", "a", "m", "p", ";">>
      [] c = "<" -> <<"&", "l", "t", ";">>
      [] c = ">" -> <<"&", "g", "t", ";">>
      [] c = QUOTE /\ escape_quotes -> <<"&", "q", "u", "o", "t", ";">>
      [] OTHER -> <<c>>

RECURSIVE escape_html(_, _, _)
escape_html(dst, text, escape_quotes) ==
    IF text = <<>> THEN dst
    ELSE escape_html(dst \o EscapeHtmlChar(Head(text), escape_quotes),
                     Tail(text), escape_quotes)

EscapeHrefChar(c) ==
    CASE c = "&" -> <<"&", "a", "m", "p", ";">>
      [] c = "<" -> <<"%", "3", "C">>
      [] c = ">" -> <<"%", "3", "E">>
      [] c = QUOTE -> <<"%", "2", "2">>
      [] c = " " -> <<"%", "2", "0">>
      [] c = NL -> <<"%", "0", "A">>
      [] OTHER -> <<c>>

RECURSIVE escape_href(_, _)
escape_href(dst, url) ==
    IF url = <<>> THEN dst
    ELSE escape_href(dst \o EscapeHrefChar(Head(url)), Tail(url))

(***************************************************************************)
(* linkify::LinkFinder restricted to LinkKind::Url (html.rs lines 52-53,   *)
(* 59).  The crate is an external dependency; links(s) follows its URL     *)
(* scanner on the characters of the model's alphabet: a match is           *)
(* scheme "://" rest, the scheme is the run of scheme characters before    *)
(* the colon (from its first letter), the rest runs to the first character *)
(* that cannot be part of a URL and ends at the last character that may    *)
(* end one.  Offsets are 0-based, end exclusive, as link.start() and       *)
(* link.end().  The alphabet has no digits, brackets, backticks or single   *)
(* quotes, so the scanner's rules for those are not modelled.              *)
(***************************************************************************)
Letters == {"a", "b", "c", "d", "e", "f", "g", "h", "i", "j", "k", "l", "m",
            "n", "o", "p", "q", "r", "s", "t", "u", "v", "w", "x", "y", "z"}
SchemeSpecial == {"+", "-", "."}
UrlBreak == {NL, " ", QUOTE, "<", ">"}
UrlNotLast == {"?", "!", ".", ",", ":", ";"}

RECURSIVE find_start(_, _, _, _)
\* scans s[lo+1 .. i] backwards; the 1-based index of the scheme's first
\* letter, 0 when there is none
find_start(s, i, lo, first) ==
    IF i <= lo THEN first
    ELSE IF s[i] \in Letters THEN find_start(s, i - 1, lo, i)
    ELSE IF s[i] \in SchemeSpecial THEN find_start(s, i - 1, lo, first)
    ELSE first

RECURSIVE find_end(_, _, _, _)
\* scans s[i ..] forwards; the 1-based index of the last character of the
\* URL, 0 when no character may end it
find_end(s, i, previous_can_be_last, end) ==
    IF i > Len(s) \/ s[i] \in UrlBreak THEN end
    ELSE LET can_be_last ==
                 IF s[i] \in UrlNotLast THEN FALSE
                 ELSE IF s[i] = "/" THEN previous_can_be_last
                 ELSE TRUE
         IN  find_end(s, i + 1, can_be_last, IF can_be_last THEN i ELSE end)

\* the URL around the colon at 1-based index `colon` of s, looking no
\* further back than offset `rewind`; <<>> when there is none
scan(s, rewind, colon) ==
    IF colon - 1 > rewind /\ colon + 3 <= Len(s)
       /\ s[colon + 1] = "/" /\ s[colon + 2] = "/"
    THEN LET start == find_start(s, colon - 1, rewind, 0)
             end == find_end(s, colon + 3, TRUE, 0)
         IN  IF start > 0 /\ end > 0
             THEN <<[start |-> start - 1, end |-> end]>>
             ELSE <<>>
    ELSE <<>>

RECURSIVE NextColon(_, _)
NextColon(s, from) ==
    IF from > Len(s) THEN 0
    ELSE IF s[from] = ":" THEN from
    ELSE NextColon(s, from + 1)

RECURSIVE LinksFrom(_, _, _)
LinksFrom(s, rewind, from) ==
    LET colon == NextColon(s, from)
    IN  IF colon = 0 THEN <<>>
        ELSE LET r == scan(s, rewind, colon)
             IN  IF r = <<>> THEN LinksFrom(s, rewind, colon + 1)
                 ELSE r \o LinksFrom(s, r[1].end, r[1].end + 1)

links(s) == LinksFrom(s, 0, 1)

link_as_str(s, link) == SubSeq(s, link.start + 1, link.end)

(***************************************************************************)
(* The Text arm of Ctx::run (lines 51-71).                                 *)
(***************************************************************************)
AHrefOpen == <<"<", "a", " ", "h", "r", "e", "f", "=", QUOTE>>
AClose == <<"<", "/", "a", ">">>

\* String::insert_str: s with t inserted at byte offset idx
insert_str(s, idx, t) == SubSeq(s, 1, idx) \o t \o SubSeq(s, idx + 1, Len(s))

\* lines 60-63: the opening anchor of one match
AnchorOpen(clone, link) ==
    escape_href(AHrefOpen, link_as_str(clone, link)) \o <<QUOTE, ">">>

RECURSIVE LinkLoopNoOffset(_, _, _, _)
\* a loop that forgets the running offset (line 68 missing)
LinkLoopNoOffset(escaped, clone, ls, appended) ==
    IF ls = <<>> THEN escaped
    ELSE LET link == Head(ls)
             string == AnchorOpen(clone, link)
             e1 == insert_str(escaped, appended + link.end, AClose)
             e2 == insert_str(e1, appended + link.start, string)
         IN  LinkLoopNoOffset(e2, clone, Tail(ls), appended)

RECURSIVE LinkLoop(_, _, _, _)
\* lines 59-69: the loop over the matches found in the clone of `escaped`
LinkLoop(escaped, clone, ls, appended) ==
    IF ls = <<>> THEN escaped
    ELSE LET link == Head(ls)
             string == AnchorOpen(clone, link)
             e1 == insert_str(escaped, appended + link.end, AClose)
             e2 == insert_str(e1, appended + link.start, string)
         IN  LinkLoop(e2, clone, Tail(ls), appended + Len(string) + 4)

\* lines 56-69: what the Text arm appends to the buffer
TextMarkup(text) ==
    LET escaped == escape_html(<<>>, text, FALSE)
    IN  LinkLoop(escaped, escaped, links(escaped), 0)

(***************************************************************************)
(* parse::Event and parse::Tag, as html.rs matches on them.  Header's      *)
(* level and CodeBlock's info string are ignored by every arm (`_`), so    *)
(* they are not carried.  "Paragraph" and "Image" stand for the tag kinds  *)
(* that fall to the `_ => ()` arms.                                        *)
(***************************************************************************)
Tag(kind) == [kind |-> kind, dest |-> <<>>, title |-> <<>>]
Link(dest, title) == [kind |-> "Link", dest |-> dest, title |-> title]

NoTag == Tag("None")
Start(tag) == [kind |-> "Start", tag |-> tag, s |-> <<>>]
End(tag) == [kind |-> "End", tag |-> tag, s |-> <<>>]
Text(s) == [kind |-> "Text", tag |-> NoTag, s |-> s]
Html(s) == [kind |-> "Html", tag |-> NoTag, s |-> s]
InlineHtml(s) == [kind |-> "InlineHtml", tag |-> NoTag, s |-> s]
SoftBreak == [kind |-> "SoftBreak", tag |-> NoTag, s |-> <<>>]
HardBreak == [kind |-> "HardBreak", tag |-> NoTag, s |-> <<>>]
FootnoteReference(name) == [kind |-> "FootnoteReference", tag |-> NoTag, s |-> name]

(***************************************************************************)
(* Ctx::fresh_line, Ctx::start_tag, Ctx::end_tag.  Each returns the buffer *)
(* it leaves.                                                              *)
(***************************************************************************)
push_str(b, s) == b \o s

\* a fresh_line that does not look at the last character
fresh_line_nonempty(b) ==
    IF b # <<>> THEN Append(b, NL) ELSE b

\* lines 39-43
fresh_line(b) ==
    IF ~(b = <<>> \/ b[Len(b)] = NL) THEN Append(b, NL) ELSE b

\* a Link arm that writes the title attribute whatever the title
start_link_always_title(b, dest, title) ==
    LET b1 == push_str(b, AHrefOpen)
        b2 == escape_href(b1, dest)
        b3 == escape_html(push_str(b2, <<QUOTE, " ", "t", "i", "t", "l", "e", "=", QUOTE>>),
                          title, FALSE)
    IN  push_str(b3, <<QUOTE, ">">>)

\* lines 102-110
start_link(b, dest, title) ==
    LET b1 == push_str(b, AHrefOpen)
        b2 == escape_href(b1, dest)
        b3 == IF title # <<>>
              THEN escape_html(push_str(b2, <<QUOTE, " ", "t", "i", "t", "l", "e", "=", QUOTE>>),
                               title, FALSE)
              ELSE b2
    IN  push_str(b3, <<QUOTE, ">">>)

\* a start_tag that renders a tag kind the code ignores
start_tag_paragraph(b, tag) ==
    CASE tag.kind = "Header" -> push_str(fresh_line(b), <<"<", "b", "i", "g", ">">>)
      [] tag.kind = "CodeBlock" -> push_str(fresh_line(b), <<"<", "t", "t", ">">>)
      [] tag.kind = "Emphasis" -> push_str(b, <<"<", "i", ">">>)
      [] tag.kind = "Strong" -> push_str(b, <<"<", "b", ">">>)
      [] tag.kind = "Code" -> push_str(b, <<"<", "t", "t", ">">>)
      [] tag.kind = "Link" -> start_link(b, tag.dest, tag.title)
      [] tag.kind = "Paragraph" -> push_str(b, <<"<", "p", ">">>)
      [] OTHER -> b

\* lines 89-113
start_tag(b, tag) ==
    CASE tag.kind = "Header" -> push_str(fresh_line(b), <<"<", "b", "i", "g", ">">>)
      [] tag.kind = "CodeBlock" -> push_str(fresh_line(b), <<"<", "t", "t", ">">>)
      [] tag.kind = "Emphasis" -> push_str(b, <<"<", "i", ">">>)
      [] tag.kind = "Strong" -> push_str(b, <<"<", "b", ">">>)
      [] tag.kind = "Code" -> push_str(b, <<"<", "t", "t", ">">>)
      [] tag.kind = "Link" -> start_link(b, tag.dest, tag.title)
      [] OTHER -> b

\* lines 115-125
end_tag(b, tag) ==
    CASE tag.kind = "Header" -> push_str(b, <<"<", "/", "b", "i", "g", ">">>)
      [] tag.kind = "CodeBlock" -> push_str(b, <<"<", "/", "t", "t", ">", NL>>)
      [] tag.kind = "Emphasis" -> push_str(b, <<"<", "/", "i", ">">>)
      [] tag.kind = "Strong" -> push_str(b, <<"<", "/", "b", ">">>)
      [] tag.kind = "Code" -> push_str(b, <<"<", "/", "t", "t", ">">>)
      [] tag.kind = "Link" -> push_str(b, AClose)
      [] OTHER -> b

(***************************************************************************)
(* The FootnoteReference arm of Ctx::run (lines 76-84).                    *)
(***************************************************************************)
HashMapNew == <<>>      \* line 46: the empty table

Digits == <<"0", "1", "2", "3", "4", "5", "6", "7", "8", "9">>

RECURSIVE Format(_)
\* format!("{}", number)
Format(n) ==
    IF n < 10 THEN <<Digits[n + 1]>>
    ELSE Format(n \div 10) \o <<Digits[(n % 10) + 1]>>

\* an insert that overwrites the entry of a name already numbered
or_insert_overwriting(table, name, len) == (name :> len) @@ table

\* numbers.entry(name).or_insert(len): the table afterwards
or_insert(table, name, len) ==
    IF name \in DOMAIN table THEN table ELSE (name :> len) @@ table

SupOpen ==
    <<"<", "s", "u", "p", " ", "c", "l", "a", "s", "s", "=", QUOTE,
      "f", "o", "o", "t", "n", "o", "t", "e", "-",
      "r", "e", "f", "e", "r", "e", "n", "c", "e", QUOTE, ">",
      "<", "a", " ", "h", "r", "e", "f", "=", QUOTE, "#">>
SupClose == <<"<", "/", "a", ">", "<", "/", "s", "u", "p", ">">>

\* a numbering that starts at the table size, without the + 1
footnote_numbers_from_zero(table, name) ==
    or_insert(table, name, Cardinality(DOMAIN table))

\* lines 77-83: the table and the buffer the arm leaves
footnote_numbers(table, name) ==
    LET len == Cardinality(DOMAIN table) + 1
    IN  or_insert(table, name, len)

footnote_markup(b, table, name) ==
    LET b1 == push_str(b, SupOpen)
        b2 == escape_html(b1, name, FALSE)
        b3 == push_str(b2, <<QUOTE, ">">>)
        number == footnote_numbers(table, name)[name]
        b4 == push_str(b3, Format(number))
    IN  push_str(b4, SupClose)

(***************************************************************************)
(* Inputs: the event sequences and buffers push_html is called with.       *)
(***************************************************************************)
DestXTest == <<"h", "t", "t", "p", ":", "/", "/", "x", ".", "t", "e", "s", "t">>
TitleMy == <<"M", "y", " ", "T", "i", "t", "l", "e">>
DestSpecial == <<"a", "&", "b", " ", "<", QUOTE>>
TitleSpecial == <<"<", "t", "&", QUOTE>>
TextClick == <<"c", "l", "i", "c", "k">>
TextSee ==
    <<"s", "e", "e", " ", "h", "t", "t", "p", ":", "/", "/",
      "e", "x", "a", "m", "p", "l", "e", ".", "c", "o", "m", " ", "n", "o", "w">>
TextB == <<"<", "b", ">">>
TextHi == <<"h", "i">>
TextAfter == <<"a", "f", "t", "e", "r">>
RawHr == <<"<", "h", "r", ">">>
RawU == <<"<", "u", ">">>

LinkTags == {Link(DestXTest, <<>>), Link(DestXTest, TitleMy),
             Link(DestSpecial, TitleSpecial)}
SimpleTags == {Tag("Header"), Tag("CodeBlock"), Tag("Emphasis"), Tag("Strong"),
               Tag("Code")}
OtherTags == {Tag("Paragraph"), Tag("Image")}
Tags == SimpleTags \cup LinkTags \cup OtherTags

FootNames == {<<"a">>, <<"b">>, <<"c", "<">>}

AllEvents ==
    {Start(t) : t \in Tags} \cup {End(t) : t \in Tags}
    \cup {Text(<<"x">>), Html(RawHr), InlineHtml(RawU), SoftBreak, HardBreak,
          FootnoteReference(<<"a">>)}

FootEvents ==
    {FootnoteReference(n) : n \in FootNames}
    \cup {Text(<<"x">>), Start(Tag("Emphasis")), SoftBreak}

LinkEvents ==
    {Start(t) : t \in LinkTags}
    \cup {End(Link(DestXTest, <<>>)), Text(TextClick), Text(<<"x">>)}

Pieces ==
    {<<"h", ":", "/", "/", "x">>, <<"&">>, <<"<">>, <<">">>, <<";">>,
     <<" ">>, <<"y">>, <<"/">>, <<".">>, <<QUOTE>>}

Texts ==
    {Flatten(ps) : ps \in SeqsUpTo(Pieces, MaxPieces)} \cup {TextSee, TextB}

Inputs ==
    SeqsUpTo(AllEvents, MaxEvents)
    \cup SeqsUpTo(FootEvents, MaxFootEvents)
    \cup SeqsUpTo(LinkEvents, MaxLinkEvents)
    \cup {<<Text(t)>> : t \in Texts}

Buffers == {<<>>, <<"p">>}

(***************************************************************************)
(* push_html (lines 155-161) and the loop of Ctx::run (lines 45-87).       *)
(***************************************************************************)
Init ==
    /\ input \in Inputs
    /\ iter = input
    /\ buf0 \in Buffers
    /\ buf = buf0
    /\ numbers = <<>>
    /\ pc = "call"
    /\ nest = 0
    /\ handled = <<>>
    /\ prev = [buf |-> buf0, numbers |-> <<>>]

\* lines 156-160 and 46: ctx.run() is entered and creates the table
RunEnter ==
    /\ pc = "call"
    /\ pc' = "run"
    /\ numbers' = HashMapNew
    /\ prev' = [buf |-> buf, numbers |-> HashMapNew]
    /\ UNCHANGED <<iter, buf, nest, input, buf0, handled>>

\* line 47: self.iter.next() yields Some(event)
Pulls(mode, kinds) ==
    /\ pc = mode
    /\ iter # <<>>
    /\ Head(iter).kind \in kinds

\* a next() that drops an event
RestSkipping(it) == IF Len(it) > 1 THEN Tail(Tail(it)) ELSE Tail(it)

\* the rest of the iterator after next()
Rest(it) == Tail(it)

Consumed ==
    /\ iter' = Rest(iter)
    /\ handled' = Append(handled, Head(iter))
    /\ prev' = [buf |-> buf, numbers |-> numbers]
    /\ UNCHANGED <<input, buf0>>

\* line 49
StartEv ==
    /\ Pulls("run", {"Start"})
    /\ buf' = start_tag(buf, Head(iter).tag)
    /\ Consumed
    /\ UNCHANGED <<numbers, pc, nest>>

\* line 50
EndEv ==
    /\ Pulls("run", {"End"})
    /\ buf' = end_tag(buf, Head(iter).tag)
    /\ Consumed
    /\ UNCHANGED <<numbers, pc, nest>>

\* lines 51-71
TextEv ==
    /\ Pulls("run", {"Text"})
    /\ buf' = push_str(buf, TextMarkup(Head(iter).s))
    /\ Consumed
    /\ UNCHANGED <<numbers, pc, nest>>

\* lines 72-73
HtmlEv ==
    /\ Pulls("run", {"Html", "InlineHtml"})
    /\ buf' = push_str(buf, Head(iter).s)
    /\ Consumed
    /\ UNCHANGED <<numbers, pc, nest>>

\* line 74
SoftBreakEv ==
    /\ Pulls("run", {"SoftBreak"})
    /\ buf' = Append(buf, NL)
    /\ Consumed
    /\ UNCHANGED <<numbers, pc, nest>>

\* line 75
HardBreakEv ==
    /\ Pulls("run", {"HardBreak"})
    /\ buf' = push_str(buf, <<"<", "b", "r", " ", "/", ">", NL>>)
    /\ Consumed
    /\ UNCHANGED <<numbers, pc, nest>>

\* lines 76-84
FootnoteEv ==
    /\ Pulls("run", {"FootnoteReference"})
    /\ buf' = footnote_markup(buf, numbers, Head(iter).s)
    /\ numbers' = footnote_numbers(numbers, Head(iter).s)
    /\ Consumed
    /\ UNCHANGED <<pc, nest>>

\* line 47: next() yields None, the loop and push_html return
LoopEnd ==
    /\ pc = "run"
    /\ iter = <<>>
    /\ pc' = "done"
    /\ UNCHANGED <<iter, buf, numbers, nest, input, buf0, handled, prev>>

Next ==
    \/ RunEnter
    \/ StartEv
    \/ EndEv
    \/ TextEv
    \/ HtmlEv
    \/ SoftBreakEv
    \/ HardBreakEv
    \/ FootnoteEv
    \/ LoopEnd

Spec == Init /\ [][Next]_vars

(***************************************************************************)
(* Raw-text skip mode.  This html.rs has no such mode; it belongs to the   *)
(* renderer's other configuration and is modelled from its description:    *)
(* entered just after a Start, it runs on the shared iterator, buffer and  *)
(* number table until the matching End, and the outer loop resumes.        *)
(***************************************************************************)
RawCore ==
    {Start(Tag("Strong")), End(Tag("Strong")), End(Tag("Emphasis")),
     Text(TextHi), Text(TextAfter)}

RawAll ==
    RawCore
    \cup {Text(TextB), Html(RawHr), InlineHtml(RawU), SoftBreak, HardBreak,
          FootnoteReference(<<"a">>), FootnoteReference(<<"b">>)}

RawInputs ==
    SeqsUpTo(RawCore, MaxRawEvents) \cup SeqsUpTo(RawAll, MaxRawAll)

\* the state just after the outer loop has handled a Start and entered the mode
RawInit ==
    /\ input \in RawInputs
    /\ iter = input
    /\ buf0 = <<>>
    /\ buf = buf0
    /\ numbers = HashMapNew
    /\ pc = "raw"
    /\ nest = 0
    /\ handled = <<>>
    /\ prev = [buf |-> buf0, numbers |-> HashMapNew]

\* a nested Start that is not counted
RawNestSame(n) == n

\* the counter after a nested Start
RawNestUp(n) == n + 1

RawStart ==
    /\ Pulls("raw", {"Start"})
    /\ nest' = RawNestUp(nest)
    /\ Consumed
    /\ UNCHANGED <<buf, numbers, pc>>

\* an End above depth 0 closes a nested Start
RawEndNested ==
    /\ Pulls("raw", {"End"})
    /\ nest > 0
    /\ nest' = nest - 1
    /\ Consumed
    /\ UNCHANGED <<buf, numbers, pc>>

\* an End at depth 0 is the matching End: the mode ends
RawEndMatching ==
    /\ Pulls("raw", {"End"})
    /\ nest = 0
    /\ pc' = "run"
    /\ Consumed
    /\ UNCHANGED <<buf, numbers, nest>>

RawText ==
    /\ Pulls("raw", {"Text", "InlineHtml"})
    /\ buf' = escape_html(buf, Head(iter).s, FALSE)
    /\ Consumed
    /\ UNCHANGED <<numbers, pc, nest>>

RawHtml ==
    /\ Pulls("raw", {"Html"})
    /\ Consumed
    /\ UNCHANGED <<buf, numbers, pc, nest>>

RawBreak ==
    /\ Pulls("raw", {"SoftBreak", "HardBreak"})
    /\ buf' = Append(buf, " ")
    /\ Consumed
    /\ UNCHANGED <<numbers, pc, nest>>

RawFootnote ==
    /\ Pulls("raw", {"FootnoteReference"})
    /\ numbers' = footnote_numbers(numbers, Head(iter).s)
    /\ buf' = push_str(buf, <<"[">> \o Format(footnote_numbers(numbers, Head(iter).s)[Head(iter).s])
                             \o <<"]">>)
    /\ Consumed
    /\ UNCHANGED <<pc, nest>>

\* the iterator ends inside the mode: the mode's loop and then the outer loop end
RawExhausted ==
    /\ pc = "raw"
    /\ iter = <<>>
    /\ pc' = "run"
    /\ UNCHANGED <<iter, buf, numbers, nest, input, buf0, handled, prev>>

RawNext ==
    \/ RawStart
    \/ RawEndNested
    \/ RawEndMatching
    \/ RawText
    \/ RawHtml
    \/ RawBreak
    \/ RawFootnote
    \/ RawExhausted
    \/ StartEv
    \/ EndEv
    \/ TextEv
    \/ HtmlEv
    \/ SoftBreakEv
    \/ HardBreakEv
    \/ FootnoteEv
    \/ LoopEnd

SpecRaw == RawInit /\ [][RawNext]_vars

(***************************************************************************)
(* Helpers of the properties.                                              *)
(***************************************************************************)
Range(q) == {q[i] : i \in 1..Len(q)}
IndexOf(q, x) == CHOOSE i \in 1..Len(q) : q[i] = x

\* the event handled by the last step, and what that step appended
LastEv == handled[Len(handled)]
Appended == SubSeq(buf, Len(prev.buf) + 1, Len(buf))
LastIs(kind) == handled # <<>> /\ LastEv.kind = kind

RECURSIVE FirstSeen(_, _)
\* the distinct footnote names of the events h, in order of first appearance
FirstSeen(h, acc) ==
    IF h = <<>> THEN acc
    ELSE IF Head(h).kind = "FootnoteReference" /\ Head(h).s \notin Range(acc)
         THEN FirstSeen(Tail(h), Append(acc, Head(h).s))
         ELSE FirstSeen(Tail(h), acc)

FootA == FootnoteReference(<<"a">>)
FootB == FootnoteReference(<<"b">>)

\* the loop is not stuck: run() is about to be entered, or next() yields
\* None or an event of a kind the match of lines 48-85 has an arm for
CanStep ==
    \/ pc = "call"
    \/ /\ pc = "run"
       /\ \/ iter = <<>>
          \/ Head(iter).kind \in {"Start", "End", "Text", "Html", "InlineHtml",
                                  "SoftBreak", "HardBreak", "FootnoteReference"}

\* the number of steps the loop has left
LoopRank ==
    Len(iter) + (CASE pc = "call" -> 2 [] pc = "run" -> 1 [] OTHER -> 0)

(***************************************************************************)
(* C1: for every finite event sequence the loop of Ctx::run terminates,    *)
(* and it has then pulled every event exactly once, in input order, and    *)
(* handled each one.  At every moment the events handled followed by the   *)
(* events still in the iterator are the input; until the loop has ended    *)
(* the iterator is empty or its next event is of a kind the match has an   *)
(* arm for (CanStep); every step lowers LoopRank, so no run is infinite;   *)
(* and when the loop has ended the events handled are exactly the input.   *)
(***************************************************************************)
C1_TerminatesHavingHandledAll ==
    /\ [](handled \o iter = input)
    /\ [](pc # "done" => CanStep)
    /\ [](pc = "done" => iter = <<>> /\ handled = input)
    /\ [][LoopRank' < LoopRank]_vars

C1_Witness == pc = "done" /\ Len(handled) >= 2 /\ handled = input

(***************************************************************************)
(* C2: within one render pass every FootnoteReference with the same name   *)
(* renders the same number and the same anchor target #name, whatever      *)
(* events lie between: the number rendered is the rank of the name among   *)
(* the distinct names in order of first appearance (an old name reuses its *)
(* number, a new one gets table size + 1).  References to a, b, a render   *)
(* 1, 2, 1.                                                                *)
(***************************************************************************)
C2_SameNameSameNumber ==
    /\ LastIs("FootnoteReference") =>
          /\ IsPrefix(prev.buf, buf)
          /\ Str(Appended) =
                "<sup class=\"footnote-reference\"><a href=\"#"
                \o Str(escape_html(<<>>, LastEv.s, FALSE)) \o "\">"
                \o Str(Format(IndexOf(FirstSeen(handled, <<>>), LastEv.s)))
                \o "</a></sup>"
          /\ IndexOf(FirstSeen(handled, <<>>), LastEv.s) =
                IF LastEv.s \in DOMAIN prev.numbers
                THEN prev.numbers[LastEv.s]
                ELSE Cardinality(DOMAIN prev.numbers) + 1
    /\ (pc = "done" /\ buf0 = <<>> /\ input = <<FootA, FootB, FootA>>) =>
          Str(buf) =
            "<sup class=\"footnote-reference\"><a href=\"#a\">1</a></sup>"
            \o "<sup class=\"footnote-reference\"><a href=\"#b\">2</a></sup>"
            \o "<sup class=\"footnote-reference\"><a href=\"#a\">1</a></sup>"

C2_Witness ==
    /\ pc = "done"
    /\ buf0 = <<>>
    /\ input = <<FootA, Text(<<"x">>), FootB, FootA>>

(***************************************************************************)
(* C3: in every reachable state the footnote table is an injective map     *)
(* whose values are exactly 1..n for the n distinct names seen so far,     *)
(* numbered in order of first appearance; an entry is never changed or     *)
(* removed; only FootnoteReference events modify the table; and the table  *)
(* is empty when push_html starts.                                         *)
(***************************************************************************)
C3_TableInvariant ==
    LET seen == FirstSeen(handled, <<>>)
    IN  /\ DOMAIN numbers = Range(seen)
        /\ \A n \in DOMAIN numbers : numbers[n] = IndexOf(seen, n)
        /\ {numbers[n] : n \in DOMAIN numbers} = 1..Cardinality(DOMAIN numbers)
        /\ \A m, n \in DOMAIN numbers : numbers[m] = numbers[n] => m = n
        /\ \A n \in DOMAIN prev.numbers :
              n \in DOMAIN numbers /\ numbers[n] = prev.numbers[n]
        /\ (handled # <<>> /\ LastEv.kind # "FootnoteReference") =>
              numbers = prev.numbers
        /\ handled = <<>> => numbers = <<>>

C3_Witness ==
    /\ Cardinality(DOMAIN numbers) = 3
    /\ Len(handled) = 4
    /\ LastIs("Text")

(***************************************************************************)
(* Helpers of the Text properties.                                         *)
(***************************************************************************)
StartsWith(s, p) == Len(s) >= Len(p) /\ SubSeq(s, 1, Len(p)) = p
Drop(s, n) == SubSeq(s, n + 1, Len(s))

AmpEntity == <<"&", "a", "m", "p", ";">>
LtEntity == <<"&", "l", "t", ";">>
GtEntity == <<"&", "g", "t", ";">>

\* the number of places of m where p occurs
CountSub(m, p) ==
    Cardinality({i \in 1..Len(m) : StartsWith(Drop(m, i - 1), p)})

\* position i of m lies in a tag, a tag being a raw "<" up to the next raw ">"
InTag(m, i) ==
    \E j \in 1..i : m[j] = "<" /\ \A k \in j..(i - 1) : m[k] # ">"

\* m without its tags
StripTags(m) ==
    LET kept == {i \in 1..Len(m) : ~InTag(m, i)}
    IN  [n \in 1..Cardinality(kept) |->
            m[CHOOSE i \in kept : Cardinality({j \in kept : j <= i}) = n]]

RECURSIVE Unescape(_)
\* the text whose HTML escape is s: every whole entity decoded
Unescape(s) ==
    IF s = <<>> THEN <<>>
    ELSE IF StartsWith(s, AmpEntity) THEN <<"&">> \o Unescape(Drop(s, 5))
    ELSE IF StartsWith(s, LtEntity) THEN <<"<">> \o Unescape(Drop(s, 4))
    ELSE IF StartsWith(s, GtEntity) THEN <<">">> \o Unescape(Drop(s, 4))
    ELSE <<Head(s)>> \o Unescape(Tail(s))

\* every "&" of m starts an entity that m holds whole and uninterrupted
EntitiesWhole(m) ==
    \A i \in 1..Len(m) :
        m[i] = "&" =>
            \/ StartsWith(Drop(m, i - 1), AmpEntity)
            \/ StartsWith(Drop(m, i - 1), LtEntity)
            \/ StartsWith(Drop(m, i - 1), GtEntity)

\* every raw "<" of m opens "</a>" or "<a href=" outside any tag, and every
\* raw ">" closes a tag
TagsAreAnchors(m) ==
    /\ \A i \in 1..Len(m) :
          m[i] = "<" =>
              /\ \/ StartsWith(Drop(m, i - 1), <<"<", "/", "a", ">">>)
                 \/ StartsWith(Drop(m, i - 1),
                               <<"<", "a", " ", "h", "r", "e", "f", "=", QUOTE>>)
              /\ i > 1 => ~InTag(m, i - 1) \/ m[i - 1] = ">"
    /\ \A i \in 1..Len(m) : m[i] = ">" => i > 1 /\ InTag(m, i - 1)

Ascending(ls) ==
    /\ \A i \in 1..Len(ls) : ls[i].start < ls[i].end
    /\ \A i \in 1..(Len(ls) - 1) : ls[i].end <= ls[i + 1].start

RECURSIVE Wrapped(_, _, _, _)
\* the escaped text e from offset pos on, each match of ls between
\* <a href="HREF"> and </a>, HREF being the href escape of the match as
\* found in e or, with `original`, of the characters the match is the
\* escape of
Wrapped(e, ls, pos, original) ==
    IF ls = <<>> THEN Str(Drop(e, pos))
    ELSE LET match == SubSeq(e, Head(ls).start + 1, Head(ls).end)
         IN  Str(SubSeq(e, pos + 1, Head(ls).start))
             \o "<a href=\"" \o Str(escape_href(<<>>, IF original THEN Unescape(match) ELSE match)) \o "\">"
             \o Str(match) \o "</a>"
             \o Wrapped(e, Tail(ls), Head(ls).end, original)

EscapedOfLast == escape_html(<<>>, LastEv.s, FALSE)

(***************************************************************************)
(* C4: for a Text event whose escaped text has its URL matches in          *)
(* ascending, non-overlapping order, the autolink step puts                *)
(* <a href="ESCAPED_URL"> right before each match and </a> right after it  *)
(* (the running offset accounts for the earlier insertions); the result    *)
(* holds exactly one anchor per match, and without the anchors it is the   *)
(* escaped text.  "see http://example.com now" yields                      *)
(* see <a href="http://example.com">http://example.com</a> now.            *)
(***************************************************************************)
C4_AnchorsAroundMatches ==
    /\ (LastIs("Text") /\ Ascending(links(EscapedOfLast))) =>
          /\ IsPrefix(prev.buf, buf)
          /\ Str(Appended) = Wrapped(EscapedOfLast, links(EscapedOfLast), 0, FALSE)
          /\ CountSub(Appended, <<"<", "a", " ">>) = Len(links(EscapedOfLast))
          /\ CountSub(Appended, <<"<", "/", "a", ">">>) = Len(links(EscapedOfLast))
          /\ StripTags(Appended) = EscapedOfLast
    /\ (pc = "done" /\ buf0 = <<>> /\ input = <<Text(TextSee)>>) =>
          Str(buf) = "see <a href=\"http://example.com\">http://example.com</a> now"

C4_Witness ==
    /\ LastIs("Text")
    /\ Len(links(EscapedOfLast)) = 2
    /\ links(EscapedOfLast)[1].end < links(EscapedOfLast)[2].start
    /\ buf0 # <<>>

(***************************************************************************)
(* C5: the autolink layer wraps the URLs of the escaped text without       *)
(* re-escaping: every character of the original text is escaped exactly    *)
(* once wherever it appears in the output, in the visible text (the output *)
(* without the anchors is the HTML escape of the text) and in the href of  *)
(* each anchor (the href escape of the URL's original characters, not of   *)
(* their escaped form).                                                    *)
(***************************************************************************)
C5_EscapedExactlyOnce ==
    LastIs("Text") =>
      /\ StripTags(Appended) = EscapedOfLast
      /\ Str(Appended) = Wrapped(EscapedOfLast, links(EscapedOfLast), 0, TRUE)

(***************************************************************************)
(* C9: Text is never re-interpreted as markup: every "<", ">" and "&" of   *)
(* the input text is in the output as a whole "&lt;", "&gt;" or "&amp;"    *)
(* (Text("<b>") renders &lt;b&gt;), and the only raw "<" and ">" a Text    *)
(* event adds belong to the <a href="..."> and </a> of autolinking.        *)
(***************************************************************************)
C9_TextNeverMarkup ==
    /\ LastIs("Text") =>
          /\ TagsAreAnchors(Appended)
          /\ EntitiesWhole(Appended)
          /\ Unescape(StripTags(Appended)) = LastEv.s
    /\ (pc = "done" /\ buf0 = <<>> /\ input = <<Text(TextB)>>) =>
          Str(buf) = "&lt;b&gt;"

NeedsNewline(b) == b # <<>> /\ b[Len(b)] # NL

(***************************************************************************)
(* C6: fresh_line, called on Start(Header) and Start(CodeBlock), appends a *)
(* newline if and only if the buffer is non-empty and does not end in a    *)
(* newline, so it never makes two newlines in a row; Text("x") then        *)
(* Start(Header(1)) has exactly one newline between x and <big>, and       *)
(* Start(Header(1)) as the first event has no newline before <big>.        *)
(***************************************************************************)
C6_FreshLine ==
    /\ (LastIs("Start") /\ LastEv.tag.kind \in {"Header", "CodeBlock"}) =>
          /\ IsPrefix(prev.buf, buf)
          /\ Str(Appended) =
                (IF NeedsNewline(prev.buf) THEN "\n" ELSE "")
                \o (IF LastEv.tag.kind = "Header" THEN "<big>" ELSE "<tt>")
          /\ \A i \in (Len(prev.buf) + 1)..Len(buf) :
                (buf[i] = NL /\ i > 1) => buf[i - 1] # NL
    /\ (pc = "done" /\ buf0 = <<>> /\ input = <<Text(<<"x">>), Start(Tag("Header"))>>) =>
          Str(buf) = "x\n<big>"
    /\ (pc = "done" /\ buf0 = <<>> /\ input = <<Start(Tag("Header"))>>) =>
          Str(buf) = "<big>"

C6_Witness ==
    /\ LastIs("Start")
    /\ LastEv.tag.kind = "CodeBlock"
    /\ prev.buf # <<>>
    /\ prev.buf[Len(prev.buf)] = NL
    /\ Len(handled) = 2

(***************************************************************************)
(* C7: Start(Link(dest, title)) appends <a href="HREF"> when the title is  *)
(* empty and <a href="HREF" title="TITLE"> when it is not, HREF being      *)
(* escape_href(dest) and TITLE escape_html(title); End(Link) appends </a>. *)
(* Start(Link("http://x.test", "")), Text("click"), End(Link) renders      *)
(* <a href="http://x.test">click</a>.                                      *)
(***************************************************************************)
C7_LinkTag ==
    /\ (LastIs("Start") /\ LastEv.tag.kind = "Link") =>
          /\ IsPrefix(prev.buf, buf)
          /\ Str(Appended) =
                "<a href=\"" \o Str(escape_href(<<>>, LastEv.tag.dest))
                \o (IF LastEv.tag.title = <<>> THEN ""
                    ELSE "\" title=\"" \o Str(escape_html(<<>>, LastEv.tag.title, FALSE)))
                \o "\">"
          /\ (CountSub(Appended, <<" ", "t", "i", "t", "l", "e", "=">>) > 0)
                <=> (LastEv.tag.title # <<>>)
    /\ (LastIs("End") /\ LastEv.tag.kind = "Link") =>
          IsPrefix(prev.buf, buf) /\ Str(Appended) = "</a>"
    /\ (pc = "done" /\ buf0 = <<>>
        /\ input = <<Start(Link(DestXTest, <<>>)), Text(TextClick),
                     End(Link(DestXTest, <<>>))>>) =>
          Str(buf) = "<a href=\"http://x.test\">click</a>"
    /\ (pc = "done" /\ buf0 = <<>> /\ input = <<Start(Link(DestXTest, TitleMy))>>) =>
          Str(buf) = "<a href=\"http://x.test\" title=\"My Title\">"

C7_Witness ==
    /\ pc = "done"
    /\ buf0 = <<>>
    /\ input = <<Start(Link(DestXTest, <<>>)), Text(TextClick),
                 End(Link(DestXTest, <<>>))>>

KnownKinds == {"Header", "CodeBlock", "Emphasis", "Strong", "Code", "Link"}

\* a buffer that agrees with b on being empty and on ending in a newline
Canon(b) ==
    IF b = <<>> THEN <<>>
    ELSE IF b[Len(b)] = NL THEN <<"q", NL>>
    ELSE <<"q">>

CountKind(h, kind) == Cardinality({i \in 1..Len(h) : h[i].kind = kind})

IsMatchingEnd(inp, i) ==
    /\ inp[i].kind = "End"
    /\ CountKind(SubSeq(inp, 1, i - 1), "Start") = CountKind(SubSeq(inp, 1, i - 1), "End")

\* the index of the matching End in the input, 0 when there is none
MatchingEnd(inp) ==
    IF \E i \in 1..Len(inp) : IsMatchingEnd(inp, i)
    THEN CHOOSE i \in 1..Len(inp) :
            IsMatchingEnd(inp, i) /\ \A j \in 1..(i - 1) : ~IsMatchingEnd(inp, j)
    ELSE 0

RECURSIVE EscapedTexts(_)
\* the escaped payloads of the Text events of h, in order
EscapedTexts(h) ==
    IF h = <<>> THEN <<>>
    ELSE (IF Head(h).kind = "Text" THEN escape_html(<<>>, Head(h).s, FALSE) ELSE <<>>)
         \o EscapedTexts(Tail(h))

RawExample ==
    <<Start(Tag("Strong")), Text(TextHi), End(Tag("Strong")), End(Tag("Emphasis")),
      Text(TextAfter)>>

(***************************************************************************)
(* C8: raw-text skip mode, entered just after a Start, consumes events up  *)
(* to and including the matching End and no further: each nested Start     *)
(* raises the depth counter, each End lowers it when it is above 0 and     *)
(* ends the mode when it is 0.  The matching End is the first End before   *)
(* which as many Starts as Ends were consumed.  For Start(Strong),         *)
(* Text("hi"), End(Strong), End(Emphasis), Text("after") the mode emits hi *)
(* and no tag markup, and leaves Text("after") to the outer loop.          *)
(***************************************************************************)
C8_RawModeEndsAtMatchingEnd ==
    /\ pc = "raw" =>
          /\ nest + CountKind(handled, "End") = CountKind(handled, "Start")
          /\ MatchingEnd(input) = 0 \/ Len(handled) < MatchingEnd(input)
    /\ (pc # "raw" /\ MatchingEnd(input) > 0) => Len(handled) >= MatchingEnd(input)
    /\ (pc = "run" /\ MatchingEnd(input) > 0 /\ Len(handled) = MatchingEnd(input)) =>
          /\ nest = 0
          /\ iter = Drop(input, MatchingEnd(input))
          /\ (\A i \in 1..Len(handled) : handled[i].kind \in {"Start", "End", "Text"}) =>
                buf = EscapedTexts(handled)
    /\ (input = RawExample /\ pc = "run" /\ Len(handled) = 4) =>
          Str(buf) = "hi" /\ iter = <<Text(TextAfter)>>
    /\ (input = RawExample /\ pc = "done") => Str(buf) = "hiafter"

C8_Witness == input = RawExample /\ pc = "run" /\ Len(handled) = 4 /\ nest = 0

====
